---- MODULE Spec2Model ----
(***************************************************************************)
(* Model of Server/app.py: a Flask process that loads a pickled model      *)
(* bundle at import and then answers /health, /model-info, /predict and    *)
(* static-file requests.                                                   *)
(*                                                                         *)
(* JSON values are records [k, n, s]: k is the JSON kind, n the number of  *)
(* a "num", s the characters of a "str".  Numbers of the dataset and of    *)
(* the /model-info response are carried in quarter units (Quarter), so     *)
(* that a median of medians is an exact integer; NaN is the marker of a    *)
(* missing number.                                                         *)
(***************************************************************************)
EXTENDS Integers, Sequences, FiniteSets, TLC

VARIABLES phase, bundleFile, SEL, IMPUTER, SCALER, MODEL, dataFile,
          req, resp, calls, infoLog

vars == <<phase, bundleFile, SEL, IMPUTER, SCALER, MODEL, dataFile,
          req, resp, calls, infoLog>>

(* ---------------- bounds ---------------- *)

\* longest string a client sends as a feature value
MaxStrLen == 1
\* most rows of the dataset file
MaxRows == 3
\* most GET /model-info answers kept in infoLog
MaxInfoLog == 2

(* ---------------- values ---------------- *)

\* np.nan: the marker of a missing number (every real number of the model is >= 0)
NaN == -1
\* dataset numbers are carried in quarter units
Quarter == 2 * 2

\* the two features the modelled bundles select from (keys of FEATURE_HELP)
ModelFeatures == {"clump_thickness", "bare_nuclei"}

FEATURE_HELP == {"clump_thickness", "uniformity_of_cell_size", "uniformity_of_cell_shape",
                 "marginal_adhesion", "single_epithelial_cell_size", "bare_nuclei",
                 "bland_chromatin", "normal_nucleoli", "mitoses"}

Digits == {"5"}
Alphabet == Digits \cup {"x"}
DigitValue(c) == CASE c = "5" -> 5

SeqsUpTo(S, n) == UNION {[1..k -> S] : k \in 0..n}

JAbsent == [k |-> "absent", n |-> 0, s |-> <<>>]
JNull == [k |-> "null", n |-> 0, s |-> <<>>]
JNum(x) == [k |-> "num", n |-> x, s |-> <<>>]
JStr(cs) == [k |-> "str", n |-> 0, s |-> cs]

\* what a client can put under one key of "features" (JAbsent: the key is not there)
JsonValues == {JAbsent, JNull} \cup {JNum(x) : x \in {1, 5}}
              \cup {JStr(cs) : cs \in SeqsUpTo(Alphabet, MaxStrLen)}

FeatureMaps == [ModelFeatures -> JsonValues]
EmptyMap == [f \in ModelFeatures |-> JAbsent]

\* Request bodies of POST /predict, by what get_json and data.get make of them:
\*   "none"      no body, or a body that is not JSON (get_json(silent=True) is None)
\*   "falsy"     a JSON body that is falsy in Python (null, 0, "", [], {})
\*   "nonobject" a truthy JSON body that is not an object (e.g. [1])
\*   "object"    a non-empty JSON object; fkind says what its "features" is:
\*               "absent", "map" (a JSON object, in feats) or "nonmap" (null, a list, ...)
Body(shape, fkind, feats) == [shape |-> shape, fkind |-> fkind, feats |-> feats]
Bodies == {Body("none", "absent", EmptyMap), Body("falsy", "absent", EmptyMap),
           Body("nonobject", "absent", EmptyMap), Body("object", "absent", EmptyMap),
           Body("object", "nonmap", EmptyMap)}
          \cup {Body("object", "map", m) : m \in FeatureMaps}

(* ---------------- the bundle ---------------- *)

\* the feature lists a bundle can select: the non-empty duplicate-free lists
SelChoices == {s \in SeqsUpTo(ModelFeatures, Cardinality(ModelFeatures)) :
                 /\ Len(s) > 0
                 /\ \A i, j \in 1..Len(s) : i # j => s[i] # s[j]}

\* a fitted imputer is its fill statistic, a fitted scaler its centre,
\* a fitted classifier a threshold on the sum of the scaled row
Bundles == [selected_features : SelChoices, imputer : {1}, scaler : {3}, model : {0}]

\* what open(MODEL_PATH) / pickle.load / the four subscriptions meet
BundleFiles == [state : {"ok", "unreadable", "corrupt", "nokey"}, content : Bundles]

Unset == <<>>

Range(s) == {s[i] : i \in 1..Len(s)}

(* ---------------- responses ---------------- *)

NoInfo == [selected_features |-> <<>>, ranges |-> <<>>, presets |-> <<>>, helptext |-> <<>>]

Response(status, kind, text, fields, prediction, label, used, info) ==
    [status |-> status, kind |-> kind, text |-> text, fields |-> fields,
     prediction |-> prediction, label |-> label, used_features |-> used, info |-> info,
     doc |-> ""]

\* a file of the asset root sent back
Document(name) == [Response(200, "document", "", <<>>, NaN, "", <<>>, NoInfo) EXCEPT !.doc = name]

NoResponse == Response(0, "none", "", <<>>, NaN, "", <<>>, NoInfo)

\* an exception no handler catches: Flask answers 500
Unhandled(exc) == Response(500, "exception", exc, <<>>, NaN, "", <<>>, NoInfo)

BadRequest(msg, names) == Response(400, "error", msg, names, NaN, "", <<>>, NoInfo)

Request(kind, path, body) == [kind |-> kind, path |-> path, body |-> body]
NoBody == Body("none", "absent", EmptyMap)
NoRequest == Request("none", "", NoBody)

(* ---------------- POST /predict ---------------- *)

\* request.get_json(silent=True) or {}, then data.get("features", {}):
\* "map" with the feature map, or "raise" when .get is called on something
\* that is not a dict
GetFeats(body) ==
    CASE body.shape \in {"none", "falsy"} -> [out |-> "map", feats |-> EmptyMap]
      [] body.shape = "nonobject" -> [out |-> "raise", feats |-> EmptyMap]
      [] body.shape = "object" /\ body.fkind = "absent" -> [out |-> "map", feats |-> EmptyMap]
      [] body.shape = "object" /\ body.fkind = "map" -> [out |-> "map", feats |-> body.feats]
      [] OTHER -> [out |-> "nonmap", feats |-> EmptyMap]

\* feats.get(f, None)
FeatGet(feats, f) ==
    IF f \in DOMAIN feats /\ feats[f].k # "absent" THEN feats[f] ELSE JNull

\* val is None or val == ""
IsMissingValue(val) == val.k = "null" \/ (val.k = "str" /\ val.s = <<>>)

\* the loop stopping at the first missing name
MissingLoop_first(sel, feats, i) ==
    LET idx == {j \in i..Len(sel) : IsMissingValue(FeatGet(feats, sel[j]))}
    IN  IF idx = {} THEN <<>>
        ELSE <<sel[CHOOSE j \in idx : \A k \in idx : j <= k]>>

\* the loop of lines 111-115: the names appended to `missing`, in SEL order
RECURSIVE MissingLoop(_, _, _)
MissingLoop(sel, feats, i) ==
    IF i > Len(sel) THEN <<>>
    ELSE LET val == FeatGet(feats, sel[i])
         IN  (IF IsMissingValue(val) THEN <<sel[i]>> ELSE <<>>)
             \o MissingLoop(sel, feats, i + 1)

\* the decimal value of a string of digits
RECURSIVE ParseDigits(_)
ParseDigits(cs) ==
    IF cs = <<>> THEN 0
    ELSE 10 * ParseDigits(SubSeq(cs, 1, Len(cs) - 1)) + DigitValue(cs[Len(cs)])

\* pd.to_numeric(column, errors="coerce") on the one value of a column
ToNumeric(val) ==
    CASE val.k = "num" -> val.n
      [] val.k = "str" /\ val.s # <<>> /\ (\A i \in 1..Len(val.s) : val.s[i] \in Digits)
            -> ParseDigits(val.s)
      [] OTHER -> NaN

\* X after lines 120-122: one row, columns in SEL order
CoercedRow(sel, feats) == [i \in 1..Len(sel) |-> ToNumeric(FeatGet(feats, sel[i]))]

\* every column reported, whatever its value
BadCols_all(sel, X, i) == SubSeq(sel, i, Len(sel))

\* X.columns[X.isna().iloc[0]].tolist()
RECURSIVE BadCols(_, _, _)
BadCols(sel, X, i) ==
    IF i > Len(sel) THEN <<>>
    ELSE (IF X[i] = NaN THEN <<sel[i]>> ELSE <<>>) \o BadCols(sel, X, i + 1)

RECURSIVE SumSeq(_)
SumSeq(xs) == IF xs = <<>> THEN 0 ELSE xs[1] + SumSeq(Tail(xs))

ImputerTransform(imputer, X) == [i \in 1..Len(X) |-> IF X[i] = NaN THEN imputer ELSE X[i]]
ScalerTransform(scaler, X) == [i \in 1..Len(X) |-> X[i] - scaler]
ModelPredict(model, X) == IF SumSeq(X) > model THEN 1 ELSE 0

Call(fn, arg, out) == [fn |-> fn, arg |-> arg, out |-> out]

\* the scaler applied before the imputer
RunPipeline_scalerFirst(imputer, scaler, model, X) ==
    LET X_scaled == ScalerTransform(scaler, X)
        X_imp == ImputerTransform(imputer, X_scaled)
        pred == ModelPredict(model, X_imp)
    IN  <<Call("scaler", X, X_scaled), Call("imputer", X_scaled, X_imp),
          Call("model", X_imp, pred)>>

\* lines 128-130: the three transform calls, in the order made
RunPipeline(imputer, scaler, model, X) ==
    LET X_imp == ImputerTransform(imputer, X)
        X_scaled == ScalerTransform(scaler, X_imp)
        pred == ModelPredict(model, X_scaled)
    IN  <<Call("imputer", X, X_imp), Call("scaler", X_imp, X_scaled),
          Call("model", X_scaled, pred)>>

\* the two labels exchanged
PredictionLabel_swapped(pred) == IF pred = 1 THEN "Benign" ELSE "Malignant"

PredictionLabel(pred) == IF pred = 1 THEN "Malignant" ELSE "Benign"

\* the handler of POST /predict: its response and the transform calls it made
PredictOutcome(sel, imputer, scaler, model, body) ==
    LET got == GetFeats(body)
        feats == got.feats
        missing == MissingLoop(sel, feats, 1)
        X == CoercedRow(sel, feats)
        made == RunPipeline(imputer, scaler, model, X)
        pred == made[Len(made)].out
    IN  IF got.out = "raise" \/ (got.out = "nonmap" /\ Len(sel) > 0)
        THEN [resp |-> Unhandled("AttributeError"), calls |-> <<>>]
        ELSE IF missing # <<>>
        THEN [resp |-> BadRequest("Missing feature values", missing), calls |-> <<>>]
        ELSE IF \E i \in 1..Len(X) : X[i] = NaN
        THEN [resp |-> BadRequest("Non-numeric or invalid values for", BadCols(sel, X, 1)),
              calls |-> <<>>]
        ELSE [resp |-> Response(200, "prediction", "", <<>>, pred, PredictionLabel(pred),
                                sel, NoInfo),
              calls |-> made]


(* ---------------- the dataset ---------------- *)

\* the text of one CSV cell of a feature column
CellTexts == {"1", "2", "?", "x"}
NumericTexts == {"1", "2"}
CellValue(t) == CASE t = "1" -> 1 [] t = "2" -> 2

ClassValues == {2, 4}

RowsOver(texts) == [class : ClassValues, cells : [ModelFeatures -> texts]]
Rows == RowsOver(CellTexts)
Row(c, clump, bare) ==
    [class |-> c, cells |-> [f \in ModelFeatures |->
                               IF f = "clump_thickness" THEN clump ELSE bare]]

\* the CSV at DATA_PATH: whether read_csv can read it, whether it has an ID
\* column, and its rows
DataFile(readable, hasID, rows) == [readable |-> readable, hasID |-> hasID, rows |-> rows]

\* every table of at most MaxRows rows whose clump_thickness cells are "2" or
\* "?" and whose bare_nuclei cells are "1", "2" or "?"
Tables == SeqsUpTo({Row(c, clump, bare) : c \in ClassValues, clump \in {"2", "?"},
                                          bare \in NumericTexts \cup {"?"}}, MaxRows)

\* three tables: "?" in both columns; a text that is no number in
\* bare_nuclei; a column with no number at all
ReferenceTables == {<<Row(2, "1", "?"), Row(4, "?", "2")>>,
                    <<Row(2, "1", "x"), Row(4, "2", "2")>>,
                    <<Row(2, "?", "1"), Row(4, "x", "2")>>}

FileColumns(file) == (IF file.hasID THEN {"ID"} ELSE {}) \cup ModelFeatures \cup {"class"}

\* load_and_clean_df: "ok" with the frame, or the exception raised.
\* In bare_nuclei "?" becomes NaN ("nan") and pd.to_numeric (errors="raise")
\* raises on any other text that is no number; the ID column is dropped.
load_and_clean_df(file) ==
    LET cleaned(r) == [r EXCEPT !.cells["bare_nuclei"] = IF @ = "?" THEN "nan" ELSE @]
        rows == [i \in 1..Len(file.rows) |-> cleaned(file.rows[i])]
    IN  IF ~file.readable
        THEN [out |-> "FileNotFoundError", columns |-> {}, rows |-> <<>>]
        ELSE IF \E i \in 1..Len(rows) :
                    rows[i].cells["bare_nuclei"] \notin NumericTexts \cup {"nan"}
        THEN [out |-> "ValueError", columns |-> {}, rows |-> <<>>]
        ELSE [out |-> "ok", columns |-> FileColumns(file) \ {"ID"}, rows |-> rows]

\* df["class"].map({2: 0, 4: 1})
ClassMap(c) == CASE c = 2 -> 0 [] c = 4 -> 1 [] OTHER -> NaN

\* pd.to_numeric(column, errors="coerce") on one cell of the frame
CoerceCell(t) == IF t \in NumericTexts THEN Quarter * CellValue(t) ELSE NaN

\* the values of a sequence that are numbers
NotNaN(xs) == SelectSeq(xs, LAMBDA x : x # NaN)

KthSmallest(xs, k) ==
    CHOOSE v \in Range(xs) :
        /\ Cardinality({i \in 1..Len(xs) : xs[i] < v}) < k
        /\ k <= Cardinality({i \in 1..Len(xs) : xs[i] <= v})

\* Series.median(): the missing values are skipped; NaN when nothing is left
Median(xs) ==
    LET vs == NotNaN(xs)
        n == Len(vs)
    IN  IF n = 0 THEN NaN
        ELSE IF n % 2 = 1 THEN KthSmallest(vs, (n + 1) \div 2)
        ELSE (KthSmallest(vs, n \div 2) + KthSmallest(vs, n \div 2 + 1)) \div 2

\* Series.min() / Series.max(): the missing values are skipped
SeriesMin(xs) ==
    LET vs == NotNaN(xs)
    IN  IF vs = <<>> THEN NaN ELSE CHOOSE v \in Range(vs) : \A w \in Range(vs) : v <= w
SeriesMax(xs) ==
    LET vs == NotNaN(xs)
    IN  IF vs = <<>> THEN NaN ELSE CHOOSE v \in Range(vs) : \A w \in Range(vs) : w <= v

\* the index DataFrame.sample(1, random_state=seed) draws among n rows
\* (1..n): a fixed function of the seed and n
SampleSeed == 42
\* a draw from a generator that is not reseeded: it moves on with every call
SeededChoice_unseeded(seed, n) == ((seed + Len(infoLog)) % n) + 1

SeededChoice(seed, n) == ((seed \div 3) % n) + 1

PresetNames == {"benign_typical", "malignant_typical", "benign_sample", "malignant_sample"}

\* the handler of GET /model-info
ModelInfoOutcome(sel, file) ==
    LET df == load_and_clean_df(file)
        N == Len(df.rows)
        y == [i \in 1..N |-> ClassMap(df.rows[i].class)]
        feats == Range(sel)
        coerced == [i \in 1..N |-> [f \in feats |-> CoerceCell(df.rows[i].cells[f])]]
        col(X, f) == [i \in 1..Len(X) |-> X[i][f]]
        median == [f \in feats |-> Median(col(coerced, f))]
        X_sel == [i \in 1..N |->
                    [f \in feats |-> IF coerced[i][f] = NaN THEN median[f] ELSE coerced[i][f]]]
        ranges == [f \in feats |-> [min |-> SeriesMin(col(X_sel, f)),
                                    max |-> SeriesMax(col(X_sel, f))]]
        ofClass(c) == SelectSeq([i \in 1..N |-> i], LAMBDA i : y[i] = c)
        benign == ofClass(0)
        malignant == ofClass(1)
        classRows(idx) == [k \in 1..Len(idx) |-> X_sel[idx[k]]]
        benign_median == [f \in feats |-> Median(col(classRows(benign), f))]
        malignant_median == [f \in feats |-> Median(col(classRows(malignant), f))]
        benign_idx == benign[SeededChoice(SampleSeed, Len(benign))]
        malig_idx == malignant[SeededChoice(SampleSeed, Len(malignant))]
        presets == [p \in PresetNames |->
                      CASE p = "benign_typical" -> benign_median
                        [] p = "malignant_typical" -> malignant_median
                        [] p = "benign_sample" -> X_sel[benign_idx]
                        [] p = "malignant_sample" -> X_sel[malig_idx]]
        helptext == [f \in feats |-> IF f \in FEATURE_HELP THEN <<"help", f>>
                                     ELSE <<"fallback", "">>]
    IN  IF df.out # "ok" THEN Unhandled(df.out)
        ELSE IF "class" \notin df.columns \/ ~(feats \subseteq df.columns)
        THEN Unhandled("KeyError")
        ELSE IF benign = <<>> \/ malignant = <<>>
        THEN Unhandled("ValueError")
        ELSE Response(200, "info", "", <<>>, NaN, "", <<>>,
                      [selected_features |-> sel, ranges |-> ranges,
                       presets |-> presets, helptext |-> helptext])

(* ---------------- static files ---------------- *)

\* what `from flask import ...` binds (line 1)
FlaskImports == {"Flask", "request", "jsonify"}

\* the files under STATIC_DIR, and the paths clients ask for
StaticFiles == {"index.html", "assets/app.js"}
StaticPaths == {"assets/app.js", "some/client/route"}

\* a call of send_from_directory(STATIC_DIR, name): the name is looked up in
\* the module's globals when the call runs
SendFromDirectory(name) ==
    IF "send_from_directory" \notin FlaskImports THEN Unhandled("NameError")
    ELSE IF name \in StaticFiles THEN Document(name)
    ELSE Response(404, "error", "NotFound", <<>>, NaN, "", <<>>, NoInfo)

\* os.path.exists(os.path.join(STATIC_DIR, path))
PathExists(path) == path \in StaticFiles

(* ---------------- actions ---------------- *)

\* the process at import, with the two files it was deployed with
InitWith(bundleFiles, dataFiles) ==
    /\ phase = "import"
    /\ bundleFile \in bundleFiles
    /\ SEL = Unset /\ IMPUTER = NaN /\ SCALER = NaN /\ MODEL = NaN
    /\ dataFile \in dataFiles
    /\ req = NoRequest
    /\ resp = NoResponse
    /\ calls = <<>>
    /\ infoLog = <<>>

\* every bundle file, a reference table readable or not, with or without ID
Init == InitWith(BundleFiles,
                 {DataFile(r, h, t) : r \in BOOLEAN, h \in BOOLEAN, t \in ReferenceTables})

\* a loadable bundle and every readable table
InitInfo == InitWith({b \in BundleFiles : b.state = "ok" /\ Len(b.content.selected_features) > 1},
                     {DataFile(TRUE, TRUE, t) : t \in Tables})

\* a failed load swallowed: the process goes on to serve without a bundle
LoadBundle_lenient ==
    /\ phase = "import"
    /\ phase' = "serving"
    /\ IF bundleFile.state = "ok"
       THEN /\ SEL' = bundleFile.content.selected_features
            /\ IMPUTER' = bundleFile.content.imputer
            /\ SCALER' = bundleFile.content.scaler
            /\ MODEL' = bundleFile.content.model
       ELSE UNCHANGED <<SEL, IMPUTER, SCALER, MODEL>>
    /\ UNCHANGED <<bundleFile, dataFile, req, resp, calls, infoLog>>

\* lines 35-41, run at import: any exception ends the process before app.run
LoadBundle ==
    /\ phase = "import"
    /\ IF bundleFile.state = "ok"
       THEN /\ SEL' = bundleFile.content.selected_features
            /\ IMPUTER' = bundleFile.content.imputer
            /\ SCALER' = bundleFile.content.scaler
            /\ MODEL' = bundleFile.content.model
            /\ phase' = "serving"
       ELSE /\ phase' = "dead"
            /\ UNCHANGED <<SEL, IMPUTER, SCALER, MODEL>>
    /\ UNCHANGED <<bundleFile, dataFile, req, resp, calls, infoLog>>

\* a health check that reads the dataset first
Health_probing ==
    /\ phase = "serving"
    /\ req' = Request("health", "/health", NoBody)
    /\ resp' = IF load_and_clean_df(dataFile).out = "ok"
               THEN Response(200, "health", "ok", <<>>, NaN, "", <<>>, NoInfo)
               ELSE Unhandled(load_and_clean_df(dataFile).out)
    /\ calls' = <<>>
    /\ UNCHANGED <<phase, bundleFile, SEL, IMPUTER, SCALER, MODEL, dataFile, infoLog>>

\* lines 43-45
Health ==
    /\ phase = "serving"
    /\ req' = Request("health", "/health", NoBody)
    /\ resp' = Response(200, "health", "ok", <<>>, NaN, "", <<>>, NoInfo)
    /\ calls' = <<>>
    /\ UNCHANGED <<phase, bundleFile, SEL, IMPUTER, SCALER, MODEL, dataFile, infoLog>>

\* the imputer refitted on the request's row (fit_transform for transform)
Predict_refit(body) ==
    /\ phase = "serving"
    /\ LET o == PredictOutcome(SEL, IMPUTER, SCALER, MODEL, body)
       IN  /\ req' = Request("predict", "/predict", body)
           /\ resp' = o.resp
           /\ calls' = o.calls
           /\ IMPUTER' = IF o.calls = <<>> THEN IMPUTER ELSE o.calls[1].arg[1]
    /\ UNCHANGED <<phase, bundleFile, SEL, SCALER, MODEL, dataFile, infoLog>>

\* lines 94-136
Predict(body) ==
    /\ phase = "serving"
    /\ LET o == PredictOutcome(SEL, IMPUTER, SCALER, MODEL, body)
       IN  /\ req' = Request("predict", "/predict", body)
           /\ resp' = o.resp
           /\ calls' = o.calls
    /\ UNCHANGED <<phase, bundleFile, SEL, IMPUTER, SCALER, MODEL, dataFile, infoLog>>

\* infoLog keeps the answers of the /model-info calls, in order
ModelInfo ==
    /\ phase = "serving"
    /\ Len(infoLog) < MaxInfoLog
    /\ req' = Request("model-info", "/model-info", NoBody)
    /\ resp' = ModelInfoOutcome(SEL, dataFile)
    /\ calls' = <<>>
    /\ infoLog' = Append(infoLog, resp')
    /\ UNCHANGED <<phase, bundleFile, SEL, IMPUTER, SCALER, MODEL, dataFile>>

ServeIndex ==
    /\ phase = "serving"
    /\ req' = Request("static", "", NoBody)
    /\ resp' = SendFromDirectory("index.html")
    /\ calls' = <<>>
    /\ UNCHANGED <<phase, bundleFile, SEL, IMPUTER, SCALER, MODEL, dataFile, infoLog>>

ServeStaticFiles(path) ==
    /\ phase = "serving"
    /\ req' = Request("static", path, NoBody)
    /\ resp' = IF PathExists(path) THEN SendFromDirectory(path)
               ELSE SendFromDirectory("index.html")
    /\ calls' = <<>>
    /\ UNCHANGED <<phase, bundleFile, SEL, IMPUTER, SCALER, MODEL, dataFile, infoLog>>

Next ==
    \/ LoadBundle
    \/ Health
    \/ ModelInfo
    \/ \E body \in Bodies : Predict(body)
    \/ ServeIndex
    \/ \E path \in StaticPaths : ServeStaticFiles(path)

\* the same handlers, with the /predict bodies of one client form
InfoBodies == {NoBody, Body("object", "map", [f \in ModelFeatures |-> JNum(5)])}

NextInfo ==
    \/ LoadBundle
    \/ Health
    \/ ModelInfo
    \/ \E body \in InfoBodies : Predict(body)
    \/ ServeIndex
    \/ \E path \in StaticPaths : ServeStaticFiles(path)

Spec == Init /\ [][Next]_vars

SpecInfo == InitInfo /\ [][NextInfo]_vars

(* ---------------- the properties ---------------- *)

\* the request's feature map, where the request has one: an absent or
\* non-JSON body, a falsy body and an absent "features" key are the empty map
HasFeatureMap(body) ==
    \/ body.shape \in {"none", "falsy"}
    \/ body.shape = "object" /\ body.fkind \in {"absent", "map"}
FeatureMapOf(body) ==
    IF body.shape = "object" /\ body.fkind = "map" THEN body.feats ELSE EmptyMap

LacksValue(v) == v \in {JAbsent, JNull, JStr(<<>>)}
IsNumericValue(v) ==
    \/ v.k = "num"
    \/ v.k = "str" /\ Len(v.s) > 0 /\ Range(v.s) \subseteq Digits

Required == bundleFile.content.selected_features
Lacking == {f \in Range(Required) : LacksValue(FeatureMapOf(req.body)[f])}
Offending == {f \in Range(Required) : ~IsNumericValue(FeatureMapOf(req.body)[f])}
InOrder(names) == SelectSeq(Required, LAMBDA f : f \in names)

PredictServed == phase = "serving" /\ req.kind = "predict" /\ HasFeatureMap(req.body)

\* C1: a /predict request whose feature map lacks a value for some required
\* feature is answered 400 "Missing feature values" with exactly the lacking
\* features, all of them, in required-list order, whatever else the map holds.
C1_MissingListed ==
    (PredictServed /\ Lacking # {}) =>
        /\ resp.status = 400
        /\ resp.text = "Missing feature values"
        /\ resp.fields = InOrder(Lacking)

\* a request lacking one required feature while the other holds a text that
\* is no number, answered with the one lacking feature
C1_Witness ==
    /\ PredictServed
    /\ Len(Required) = 2
    /\ Cardinality(Lacking) = 1
    /\ \E f \in Range(Required) : FeatureMapOf(req.body)[f] = JStr(<<"x">>)
    /\ resp.status = 400 /\ Len(resp.fields) = 1

\* C2: when every required feature has a non-empty value and some fail
\* numeric coercion, the answer is 400 "Non-numeric or invalid values for"
\* with exactly the failing features together; that answer is given only
\* when no required feature lacks a value.
C2_InvalidListed ==
    /\ (PredictServed /\ Lacking = {} /\ Offending # {}) =>
            /\ resp.status = 400
            /\ resp.text = "Non-numeric or invalid values for"
            /\ resp.fields = InOrder(Offending)
    /\ (req.kind = "predict" /\ resp.text = "Non-numeric or invalid values for") =>
            Lacking = {}

\* two required features, one a number and one a text that is no number
C2_Witness ==
    /\ PredictServed
    /\ Len(Required) = 2
    /\ Lacking = {} /\ Cardinality(Offending) = 1
    /\ resp.status = 400 /\ Len(resp.fields) = 1

\* C3: a valid feature map is answered 200 with prediction 0 or 1, the label
\* "Malignant" exactly for 1 and "Benign" exactly for 0, and used_features
\* equal to the bundle's required list in its order.
C3_ValidPredicted ==
    (PredictServed /\ Offending = {}) =>
        /\ resp.status = 200
        /\ resp.prediction \in {0, 1}
        /\ (resp.label = "Malignant") = (resp.prediction = 1)
        /\ (resp.label = "Benign") = (resp.prediction = 0)
        /\ resp.used_features = Required

\* a valid map of two features, one a number and one a string of digits,
\* classified malignant
C3_Witness ==
    /\ PredictServed /\ Offending = {} /\ Len(Required) = 2
    /\ \E f \in Range(Required) : FeatureMapOf(req.body)[f].k = "str"
    /\ resp.prediction = 1 /\ resp.label = "Malignant"

\* C4: every static request ends in a served document: the file at the path
\* when it exists under the asset root, index.html otherwise and for "/".
C4_DocumentServed ==
    (phase = "serving" /\ req.kind = "static") =>
        /\ resp.status = 200
        /\ resp.kind = "document"
        /\ resp.doc = IF req.path \in StaticFiles THEN req.path ELSE "index.html"

DatasetBad == load_and_clean_df(dataFile).out # "ok"

C6_HealthOk ==
    (phase = "serving" /\ req.kind = "health") =>
        /\ resp.status = 200
        /\ resp.kind = "health"
        /\ resp.text = "ok"

\* /health answered with the dataset unreadable, after a /model-info that failed
C6_Witness ==
    /\ req.kind = "health" /\ resp.status = 200
    /\ ~dataFile.readable
    /\ Len(infoLog) > 0 /\ infoLog[1].status = 500

C8_RangesFinite ==
    \A i \in 1..Len(infoLog) :
        infoLog[i].status = 200 =>
            \A f \in Range(SEL) :
                /\ infoLog[i].info.ranges[f].min # NaN
                /\ infoLog[i].info.ranges[f].max # NaN
                /\ infoLog[i].info.ranges[f].min <= infoLog[i].info.ranges[f].max

\* C9: the transforms run only on a fully valid row, once each, imputer
\* then scaler on the imputer's output then classifier on the scaler's
\* output; a request answered 400 runs none of them.
C9_PipelineOrder ==
    /\ (req.kind # "predict" \/ resp.status # 200) => calls = <<>>
    /\ (req.kind = "predict" /\ resp.status = 200) =>
            /\ Offending = {}
            /\ [i \in 1..Len(calls) |-> calls[i].fn] = <<"imputer", "scaler", "model">>
            /\ \A i \in 1..Len(Required) :
                    /\ calls[1].arg[i] # NaN
                    /\ IsNumericValue(FeatureMapOf(req.body)[Required[i]])
            /\ calls[2].arg = calls[1].out
            /\ calls[3].arg = calls[2].out
            /\ resp.prediction = calls[3].out

\* a prediction made with the three calls logged
C9_Witness == req.kind = "predict" /\ resp.status = 200 /\ Len(calls) = 3

\* the answer /predict gives to a body when it is the first request served
AsFirstRequest(body) ==
    PredictOutcome(bundleFile.content.selected_features, bundleFile.content.imputer,
                   bundleFile.content.scaler, bundleFile.content.model, body).resp

\* C10: no request changes the loaded bundle or the dataset, and /predict
\* answers a body as it would have as the first request served.
C10_Stateless ==
    [][/\ phase = "serving" =>
            <<SEL, IMPUTER, SCALER, MODEL>>' = <<SEL, IMPUTER, SCALER, MODEL>>
       /\ dataFile' = dataFile /\ bundleFile' = bundleFile
       /\ (phase = "serving" /\ req'.kind = "predict") =>
            resp' = AsFirstRequest(req'.body)]_vars

\* a prediction served after a failed /predict and a /model-info
C10_Witness ==
    /\ req.kind = "predict" /\ resp.status = 200
    /\ Len(infoLog) > 0
    /\ <<SEL, IMPUTER, SCALER, MODEL>> =
         <<bundleFile.content.selected_features, bundleFile.content.imputer,
           bundleFile.content.scaler, bundleFile.content.model>>

====
